---- MODULE Spec2Model ----
(***************************************************************************)
(* Model of interlocutor's tf-idf encoder (interlocutor/nlp/encoding.py)   *)
(* and of the postgres tables it reads and writes.                         *)
(*                                                                         *)
(* Text is modelled as a sequence of character codes (Space = 0, 'a' = 1   *)
(* ... 'z' = 26), so that tokenising and sorting are computed, not         *)
(* assumed.  A tf-idf weight is a positive multiple of the term count, so  *)
(* a component of an encoded vector is modelled by that term count: it is  *)
(* zero exactly when the real weight is zero.                              *)
(***************************************************************************)
EXTENDS Integers, Sequences, FiniteSets, TLC

\* ------------------------------------------------------------------ bounds

\* How many articles the preprocessed-content tables hold at most.
MaxArticles == 3

\* ---------------------------------------------------------------- the data

Space == 0

some_ == <<19, 15, 13, 5>>
more_ == <<13, 15, 18, 5>>
words_ == <<23, 15, 18, 4, 19>>
x_ == <<24>>

\* ' '.join(lemmas): what BagOfWordsPreprocessor stores as processed_content.
Join(lemmas) ==
    LET RECURSIVE J(_)
        J(k) == IF k > Len(lemmas) THEN <<>>
                ELSE IF k = Len(lemmas) THEN lemmas[k]
                ELSE lemmas[k] \o <<Space>> \o J(k + 1)
    IN J(1)

SomeWords == Join(<<some_, words_>>)
SomeMoreWords == Join(<<some_, more_, words_>>)
XOnly == Join(<<x_>>)

\* The processed_content values an article may have.
Texts == {SomeWords, SomeMoreWords, XOnly}

\* The loop order of _load_all_articles_bow_preprocessed_content.
Publications == <<"daily_mail", "the_guardian">>

ArticleIds == 1..MaxArticles

\* An article id is the md5 of the article's url, so an id belongs to one
\* publication only: here odd ids are the Daily Mail's, even ids the Guardian's.
PublicationOf(id) == IF id % 2 = 1 THEN "daily_mail" ELSE "the_guardian"

Encoders == {1, 2}

\* --------------------------------------------------------------- the state

VARIABLES
    bow,                  \* <publication>.article_content_bow_preprocessed: rows [id, processed_content]
    tfidf_vocabulary,     \* encoded_articles.tfidf_vocabulary: sequence of rows [word, feature_matrix_index]
    tfidf_representation, \* encoded_articles.tfidf_representation: sequence of rows [id, encoded]
    pc,                   \* where each encoder's encode_articles call stands
    use_existing_vocab,   \* TfidfEncoder._use_existing_vocab
    preprocessed_content, \* encode_articles' local: sequence of rows [id, processed_content]
    new_vocabulary,       \* _analyse_and_overwrite_existing_vocabulary's local dataframe
    vocabulary,           \* encode_articles' local: the loaded dict word -> index
    encoded_articles_dataframe, \* encode_articles' local: the rows to upload
    before,               \* history: the tables as they were when the call started
    tfidf_similar_articles, \* encoded_articles.tfidf_similar_articles: rows [id, similar_article_id, similarity_score]
    sim_pc,               \* where the store_most_similar_articles call stands
    similarity_threshold, \* its argument, a fraction [num, den]
    df_encoded_articles,  \* _calculate_similarities' local: tfidf_representation as read
    df_similarity,        \* the matrix _calculate_similarities returns
    df_above_threshold,   \* store_most_similar_articles' local: the rows to upload
    sim_before,           \* history: tfidf_similar_articles when the call started
    sim_store_calls,      \* history: the database calls the call has made
    store_call_failed,    \* history: a database call of the encode_articles call has failed
    sim_store_call_failed, \* history: a database call of the similarity call has failed
    target_table,         \* the table upload_new_data_only_to_existing_table inserts into: its rows
    staging_table,        \* <table_name>_staging: <<>> when there is none, else <<[columns, rows]>>
    upload_pc,            \* where the upload_new_data_only_to_existing_table call stands
    dataframe,            \* its argument: [columns, rows], each row in the order of columns
    dataframe_reorganised_columns, \* its local: the dataframe after reindex
    upload_before,        \* history: target_table when the call started
    decorator,            \* which retry wraps the function: "commons" or "get_data"
    total_attempts,       \* retry's argument
    seconds_to_wait,      \* retry's argument; 0 stands for None
    attempt_number,       \* func_with_retries' local
    retry_pc,             \* where the call of func_with_retries stands
    attempts_made,        \* history: how each call of the wrapped function ended
    from_attempt,         \* history: the attempt whose result or exception left the wrapper, 0 for none
    seconds_slept,        \* history: the seconds spent in time.sleep
    article_metadata,     \* the_guardian.article_metadata: the articles saved, each named by its publication time
    publication_start_timestamp, \* record_opinion_articles_metadata's argument; 0 stands for None
    most_recent_datetime, \* its local: the from-date of the attempt's API calls; 0 stands for None
    total_pages,          \* its local
    page_index,           \* its local: the page the loop is at
    opinion_articles_metadata_per_api_call, \* its local: the pages pulled by the attempt
    metadata_attempt_number, \* attempt_number of the method's retry wrapper
    metadata_pc,          \* where the call of the decorated method stands
    texts,                \* _preprocess_texts' argument
    batch_size,           \* BagOfWordsPreprocessor._batch_size
    number_of_processors, \* BagOfWordsPreprocessor._number_of_processors
    documents_yielded,    \* how many documents the loop has taken from nlp.pipe
    transformed_texts,    \* _preprocess_texts' local deque
    preprocess_pc,        \* where the call of _preprocess_texts stands
    article_content,      \* <schema>.article_content: rows [schema, id, content]
    article_content_bow_preprocessed, \* the preprocessor's view of <schema>.article_content_bow_preprocessed: rows [schema, id, processed_content]
    schema_index,         \* where preprocess_all_article_content's loop over the schemas is
    preprocess_all_pc,    \* where the call of preprocess_all_article_content stands
    preprocessed_before,  \* history: article_content_bow_preprocessed when the call started
    content_before        \* history: article_content when the call started

similarity_vars == <<tfidf_similar_articles, sim_pc, similarity_threshold,
                     df_encoded_articles, df_similarity, df_above_threshold,
                     sim_before, sim_store_calls, sim_store_call_failed>>

upload_vars == <<target_table, staging_table, upload_pc, dataframe,
                 dataframe_reorganised_columns, upload_before>>

retry_vars == <<decorator, total_attempts, seconds_to_wait, attempt_number,
                retry_pc, attempts_made, from_attempt, seconds_slept>>

metadata_vars == <<article_metadata, publication_start_timestamp,
                   most_recent_datetime, total_pages, page_index,
                   opinion_articles_metadata_per_api_call,
                   metadata_attempt_number, metadata_pc>>

preprocess_vars == <<texts, batch_size, number_of_processors,
                     documents_yielded, transformed_texts, preprocess_pc>>

preprocess_all_vars == <<article_content, article_content_bow_preprocessed,
                         schema_index, preprocess_all_pc, preprocessed_before,
                         content_before>>

\* What no step of encode_articles touches.
outside_encoder == <<similarity_vars, upload_vars, retry_vars, metadata_vars,
                     preprocess_vars, preprocess_all_vars>>

vars == <<bow, tfidf_vocabulary, tfidf_representation, pc, use_existing_vocab,
          preprocessed_content, new_vocabulary, vocabulary,
          encoded_articles_dataframe, before, store_call_failed, outside_encoder>>

stores == <<bow, tfidf_vocabulary, tfidf_representation>>
locals == <<preprocessed_content, new_vocabulary, vocabulary, encoded_articles_dataframe>>
encoder_vars == <<stores, pc, use_existing_vocab, locals, before, store_call_failed>>

\* ------------------------------------------------------------ pure helpers

Range(s) == {s[i] : i \in DOMAIN s}

Min(a, b) == IF a < b THEN a ELSE b

\* Python's str comparison u < v: code point by code point, a proper prefix first.
LexLess(u, v) ==
    \/ \E i \in 1..Min(Len(u), Len(v)) :
          /\ u[i] < v[i]
          /\ \A j \in 1..(i - 1) : u[j] = v[j]
    \/ /\ Len(u) < Len(v)
       /\ \A j \in 1..Len(u) : u[j] = v[j]

\* sklearn's default analyzer on one document: token_pattern (?u)\b\w\w+\b keeps
\* the maximal runs of word characters that are two or more characters long.
Tokenise(text) ==
    LET RECURSIVE T(_, _)
        T(k, run) ==
            IF k > Len(text)
            THEN IF Len(run) >= 2 THEN <<run>> ELSE <<>>
            ELSE IF text[k] = Space
                 THEN (IF Len(run) >= 2 THEN <<run>> ELSE <<>>) \o T(k + 1, <<>>)
                 ELSE T(k + 1, Append(run, text[k]))
    IN T(1, <<>>)

\* str.split on the stored text: the lemmas the preprocessor joined.
SplitWords(text) ==
    LET RECURSIVE T(_, _)
        T(k, run) ==
            IF k > Len(text)
            THEN IF Len(run) >= 1 THEN <<run>> ELSE <<>>
            ELSE IF text[k] = Space
                 THEN (IF Len(run) >= 1 THEN <<run>> ELSE <<>>) \o T(k + 1, <<>>)
                 ELSE T(k + 1, Append(run, text[k]))
    IN T(1, <<>>)

\* The distinct tokens the vectoriser finds across the documents it is fitted on.
FittedWords(contents) ==
    UNION {Range(Tokenise(contents[i])) : i \in DOMAIN contents}

\* sorted(S): the ascending sequence of a finite set of strings.
RECURSIVE SortedWords(_)
SortedWords(S) ==
    IF S = {} THEN <<>>
    ELSE LET least == CHOOSE w \in S : \A v \in S \ {w} : LexLess(w, v)
         IN <<least>> \o SortedWords(S \ {least})

\* A faulty variant of GetFeatureNames: the words in the order the fit first met them.
GetFeatureNamesFirstSeen(contents) ==
    LET RECURSIVE F(_, _)
        F(k, seen) ==
            IF k > Len(contents) THEN seen
            ELSE LET tokens == Tokenise(contents[k])
                     RECURSIVE G(_, _)
                     G(j, acc) == IF j > Len(tokens) THEN acc
                                  ELSE IF tokens[j] \in Range(acc) THEN G(j + 1, acc)
                                  ELSE G(j + 1, Append(acc, tokens[j]))
                 IN F(k + 1, G(1, seen))
    IN F(1, <<>>)

\* TfidfVectorizer().fit(...).get_feature_names(): CountVectorizer sorts the
\* vocabulary it found (_sort_features) and numbers the words in that order.
GetFeatureNames(contents) == SortedWords(FittedWords(contents))

\* A faulty variant of NewVocabulary: the indices counted from 1.
NewVocabularyFromOne(contents) ==
    LET names == GetFeatureNames(contents)
    IN [i \in 1..Len(names) |-> [word |-> names[i], feature_matrix_index |-> i]]

\* pd.DataFrame(data={'word': words, 'feature_matrix_index': range(len(words))})
NewVocabulary(contents) ==
    LET names == GetFeatureNames(contents)
    IN [i \in 1..Len(names) |-> [word |-> names[i], feature_matrix_index |-> i - 1]]

\* vectoriser.fit raises ValueError("empty vocabulary; ...") when no document
\* holds a token.
FitRaises(contents) == FittedWords(contents) = {}

\* df.set_index('word')['feature_matrix_index'].to_dict(): the last row of a
\* word wins.
VocabularyDict(table) ==
    LET ws == {table[i].word : i \in DOMAIN table}
        last(w) == CHOOSE i \in DOMAIN table :
                      /\ table[i].word = w
                      /\ \A j \in DOMAIN table : table[j].word = w => j <= i
    IN [w \in ws |-> table[last(w)].feature_matrix_index]

\* TfidfVectorizer(vocabulary=...).fit_transform raises ValueError when the
\* vocabulary is empty, repeats an index or misses an index of 0..V-1
\* (_validate_vocabulary), and when it is given no document at all
\* (TfidfTransformer.fit: check_array wants at least one sample).
FitTransformRaises(vocab, contents) ==
    LET V == Cardinality(DOMAIN vocab)
        indices == {vocab[w] : w \in DOMAIN vocab}
    IN \/ V = 0
       \/ Cardinality(indices) # V
       \/ indices # 0..(V - 1)
       \/ Len(contents) = 0

Count(tokens, w) == Cardinality({k \in DOMAIN tokens : tokens[k] = w})

\* One row of encoded_articles_matrix.toarray().tolist(): a component per
\* feature index, the weight of the vocabulary's word of that index.
EncodeText(vocab, text) ==
    LET V == Cardinality(DOMAIN vocab)
        tokens == Tokenise(text)
    IN [i \in 1..V |->
          LET w == CHOOSE u \in DOMAIN vocab : vocab[u] = i - 1
          IN Count(tokens, w)]

EncodedArticles(vocab, content) ==
    [k \in DOMAIN content |->
        [id |-> content[k].id, encoded |-> EncodeText(vocab, content[k].processed_content)]]

\* The rows of a set of rows in the order the table returns them (by id).
RECURSIVE RowsById(_)
RowsById(rows) ==
    IF rows = {} THEN <<>>
    ELSE LET first == CHOOSE r \in rows : \A q \in rows : r.id <= q.id
         IN <<first>> \o RowsById(rows \ {first})

EncodedIds(table) == {table[i].id : i \in DOMAIN table}

ProcessedContents(content) == [k \in DOMAIN content |-> content[k].processed_content]

\* ------------------------------------------------------------------- Init

NoTables == [bow |-> {}, vocabulary |-> <<>>, representation |-> <<>>]

\* No decorated function has been called.
InitRetry ==
    /\ decorator = "commons"
    /\ total_attempts = 1
    /\ seconds_to_wait = 0
    /\ attempt_number = 1
    /\ retry_pc = "idle"
    /\ attempts_made = <<>>
    /\ from_attempt = 0
    /\ seconds_slept = 0

\* No article metadata has been saved and the method has not been called.
InitMetadata ==
    /\ article_metadata = {}
    /\ publication_start_timestamp = 0
    /\ most_recent_datetime = 0
    /\ total_pages = 0
    /\ page_index = 1
    /\ opinion_articles_metadata_per_api_call = <<>>
    /\ metadata_attempt_number = 1
    /\ metadata_pc = "idle"

\* BagOfWordsPreprocessor() with its defaults; _preprocess_texts not called.
InitPreprocess ==
    /\ texts = <<>>
    /\ batch_size = 1
    /\ number_of_processors = 1
    /\ documents_yielded = 0
    /\ transformed_texts = <<>>
    /\ preprocess_pc = "idle"

\* No article has been downloaded and preprocess_all_article_content has not
\* been called.
InitPreprocessAll ==
    /\ article_content = {}
    /\ article_content_bow_preprocessed = {}
    /\ schema_index = 1
    /\ preprocess_all_pc = "idle"
    /\ preprocessed_before = {}
    /\ content_before = {}

\* The database as its schema creates it: every table exists and is empty; no
\* encoder has been called.
Init ==
    /\ bow = {}
    /\ tfidf_vocabulary = <<>>
    /\ tfidf_representation = <<>>
    /\ pc = [e \in Encoders |-> "idle"]
    /\ use_existing_vocab = [e \in Encoders |-> TRUE]
    /\ preprocessed_content = [e \in Encoders |-> <<>>]
    /\ new_vocabulary = [e \in Encoders |-> <<>>]
    /\ vocabulary = [e \in Encoders |-> <<>>]
    /\ encoded_articles_dataframe = [e \in Encoders |-> <<>>]
    /\ before = [e \in Encoders |-> NoTables]
    /\ tfidf_similar_articles = <<>>
    /\ sim_pc = "idle"
    /\ similarity_threshold = [num |-> 0, den |-> 1]
    /\ df_encoded_articles = <<>>
    /\ df_similarity = <<>>
    /\ df_above_threshold = <<>>
    /\ sim_before = <<>>
    /\ sim_store_calls = 0
    /\ store_call_failed = [e \in Encoders |-> FALSE]
    /\ sim_store_call_failed = FALSE
    /\ target_table = <<>>
    /\ staging_table = <<>>
    /\ upload_pc = "idle"
    /\ dataframe = [columns |-> <<>>, rows |-> <<>>]
    /\ dataframe_reorganised_columns = [columns |-> <<>>, rows |-> <<>>]
    /\ upload_before = <<>>
    /\ InitRetry
    /\ InitMetadata
    /\ InitPreprocess
    /\ InitPreprocessAll

Running(e) == pc[e] \notin {"idle", "returned", "raised"}

NoRunInProgress == \A e \in Encoders : ~Running(e)

\* ---------------------------------------------------------------- actions

\* BagOfWordsPreprocessor.preprocess_all_article_content stores the processed
\* content of an article that has none yet; rows are only ever added.  The
\* jobs are batch scripts run one after the other, so no row arrives while an
\* encoder is at work.
AddArticle(id, text) ==
    /\ NoRunInProgress
    /\ id \notin {r.id : r \in bow}
    /\ bow' = bow \cup {[publication |-> PublicationOf(id), id |-> id,
                          processed_content |-> text]}
    /\ UNCHANGED <<tfidf_vocabulary, tfidf_representation, pc, use_existing_vocab,
                   locals, before>>
    /\ UNCHANGED <<store_call_failed, outside_encoder>>

\* A faulty variant of MayStart: a call waits for every other call to end.
MayStartAlone(e) == NoRunInProgress

\* encode_articles begins with its first read: it takes no lock and looks at
\* no other call, so only the caller's own call has to have ended.
MayStart(e) == ~Running(e)

\* TfidfEncoder(use_existing_vocab=flag).encode_articles() is called.
Start(e, flag) ==
    /\ MayStart(e)
    /\ pc' = [pc EXCEPT ![e] = "load_daily_mail"]
    /\ use_existing_vocab' = [use_existing_vocab EXCEPT ![e] = flag]
    /\ store_call_failed' = [store_call_failed EXCEPT ![e] = FALSE]
    /\ preprocessed_content' = [preprocessed_content EXCEPT ![e] = <<>>]
    /\ new_vocabulary' = [new_vocabulary EXCEPT ![e] = <<>>]
    /\ vocabulary' = [vocabulary EXCEPT ![e] = <<>>]
    /\ encoded_articles_dataframe' = [encoded_articles_dataframe EXCEPT ![e] = <<>>]
    /\ before' = [before EXCEPT ![e] = [bow |-> bow,
                                        vocabulary |-> tfidf_vocabulary,
                                        representation |-> tfidf_representation]]
    /\ UNCHANGED stores
    /\ UNCHANGED outside_encoder

\* One run at a time: the call starts when no other call is in progress.
StartAlone(e, flag) ==
    /\ NoRunInProgress
    /\ Start(e, flag)

\* A faulty variant of PublicationContent: every article, whatever the mode.
PublicationContentAll(e, publication) ==
    LET table == {r \in bow : r.publication = publication}
    IN RowsById({[id |-> r.id, processed_content |-> r.processed_content] : r \in table})

\* A faulty variant of PublicationContent: only the articles not yet encoded, whatever
\* the mode.
PublicationContentNewOnly(e, publication) ==
    LET table == {r \in bow : r.publication = publication}
        rows == {r \in table : r.id \notin EncodedIds(tfidf_representation)}
    IN RowsById({[id |-> r.id, processed_content |-> r.processed_content] : r \in rows})

\* The rows one publication contributes: with an existing vocabulary only the
\* articles whose id is not in tfidf_representation, otherwise all of them.
PublicationContent(e, publication) ==
    LET table == {r \in bow : r.publication = publication}
        rows == IF use_existing_vocab[e]
                THEN {r \in table : r.id \notin EncodedIds(tfidf_representation)}
                ELSE table
    IN RowsById({[id |-> r.id, processed_content |-> r.processed_content] : r \in rows})

\* A faulty variant of FitsNewVocabulary: the vocabulary is fitted anew in every call.
FitsNewVocabularyAlways(e) == TRUE

\* Whether encode_articles fits a new vocabulary before encoding.
FitsNewVocabulary(e) == ~use_existing_vocab[e]

\* One turn of the loop over the publications: get_dataframe and pd.concat.
LoadPublicationContent(e, k) ==
    /\ pc[e] = (IF k = 1 THEN "load_daily_mail" ELSE "load_the_guardian")
    /\ preprocessed_content' = [preprocessed_content EXCEPT
            ![e] = @ \o PublicationContent(e, Publications[k])]
    /\ pc' = [pc EXCEPT ![e] =
            IF k < Len(Publications) THEN "load_the_guardian"
            ELSE IF FitsNewVocabulary(e) THEN "analyse_vocabulary"
            ELSE "load_vocabulary"]
    /\ UNCHANGED <<stores, use_existing_vocab, new_vocabulary, vocabulary,
                   encoded_articles_dataframe, before>>
    /\ UNCHANGED <<store_call_failed, outside_encoder>>

\* A faulty variant of TruncatedVocabulary: the TRUNCATE is left out.
TruncatedVocabularyKept == tfidf_vocabulary

\* The table after "TRUNCATE TABLE encoded_articles.tfidf_vocabulary;".
TruncatedVocabulary == <<>>

\* _analyse_and_overwrite_existing_vocabulary up to its TRUNCATE: the fit
\* raises on a corpus without a token, before anything is written.
TruncateVocabulary(e) ==
    /\ pc[e] = "analyse_vocabulary"
    /\ LET contents == ProcessedContents(preprocessed_content[e])
       IN IF FitRaises(contents)
          THEN /\ pc' = [pc EXCEPT ![e] = "raised"]
               /\ UNCHANGED <<tfidf_vocabulary, new_vocabulary>>
          ELSE /\ new_vocabulary' = [new_vocabulary EXCEPT ![e] = NewVocabulary(contents)]
               /\ tfidf_vocabulary' = TruncatedVocabulary
               /\ pc' = [pc EXCEPT ![e] = "upload_vocabulary"]
    /\ UNCHANGED <<bow, tfidf_representation, use_existing_vocab, preprocessed_content,
                   vocabulary, encoded_articles_dataframe, before>>
    /\ UNCHANGED <<store_call_failed, outside_encoder>>

\* upload_dataframe(new_vocabulary, 'tfidf_vocabulary', if_exists='append')
UploadVocabulary(e) ==
    /\ pc[e] = "upload_vocabulary"
    /\ tfidf_vocabulary' = tfidf_vocabulary \o new_vocabulary[e]
    /\ pc' = [pc EXCEPT ![e] = "load_vocabulary"]
    /\ UNCHANGED <<bow, tfidf_representation, use_existing_vocab, locals, before>>
    /\ UNCHANGED <<store_call_failed, outside_encoder>>

\* _load_vocabulary
LoadVocabulary(e) ==
    /\ pc[e] = "load_vocabulary"
    /\ vocabulary' = [vocabulary EXCEPT ![e] = VocabularyDict(tfidf_vocabulary)]
    /\ pc' = [pc EXCEPT ![e] = "encode"]
    /\ UNCHANGED <<stores, use_existing_vocab, preprocessed_content, new_vocabulary,
                   encoded_articles_dataframe, before>>
    /\ UNCHANGED <<store_call_failed, outside_encoder>>

\* A faulty variant of TruncatedRepresentation: the TRUNCATE is left out.
TruncatedRepresentationSkipped(e) == tfidf_representation

\* The table after 'if not self._use_existing_vocab: TRUNCATE TABLE
\* encoded_articles.tfidf_representation'.
TruncatedRepresentation(e) ==
    IF ~use_existing_vocab[e] THEN <<>> ELSE tfidf_representation

\* fit_transform, the dataframe of encoded articles and, for a new vocabulary,
\* the TRUNCATE of tfidf_representation.
EncodeAndTruncate(e) ==
    /\ pc[e] = "encode"
    /\ LET contents == ProcessedContents(preprocessed_content[e])
       IN IF FitTransformRaises(vocabulary[e], contents)
          THEN /\ pc' = [pc EXCEPT ![e] = "raised"]
               /\ UNCHANGED <<tfidf_representation, encoded_articles_dataframe>>
          ELSE /\ encoded_articles_dataframe' = [encoded_articles_dataframe EXCEPT
                      ![e] = EncodedArticles(vocabulary[e], preprocessed_content[e])]
               /\ tfidf_representation' = TruncatedRepresentation(e)
               /\ pc' = [pc EXCEPT ![e] = "upload_representation"]
    /\ UNCHANGED <<bow, tfidf_vocabulary, use_existing_vocab, preprocessed_content,
                   new_vocabulary, vocabulary, before>>
    /\ UNCHANGED <<store_call_failed, outside_encoder>>

\* upload_dataframe(encoded_articles_dataframe, 'tfidf_representation',
\* if_exists='append'), after which encode_articles returns.
UploadRepresentation(e) ==
    /\ pc[e] = "upload_representation"
    /\ tfidf_representation' = tfidf_representation \o encoded_articles_dataframe[e]
    /\ pc' = [pc EXCEPT ![e] = "returned"]
    /\ UNCHANGED <<bow, tfidf_vocabulary, use_existing_vocab, locals, before>>
    /\ UNCHANGED <<store_call_failed, outside_encoder>>

\* A faulty variant of AfterFailedCall: the call is made again.
CallMadeAgain(position) == position

\* Neither method catches an exception of a database call, and no method of
\* DatabaseConnection does: the method is left at the call that raised.
AfterFailedCall(position) == "raised"

\* A call to the database raises (or the process dies at it): nothing is
\* written by the call, the exception leaves encode_articles.
StoreFailure(e) ==
    /\ Running(e)
    /\ pc' = [pc EXCEPT ![e] = AfterFailedCall(pc[e])]
    /\ store_call_failed' = [store_call_failed EXCEPT ![e] = TRUE]
    /\ UNCHANGED <<stores, use_existing_vocab, locals, before>>
    /\ UNCHANGED outside_encoder

Step(e) ==
    \/ \E k \in DOMAIN Publications : LoadPublicationContent(e, k)
    \/ TruncateVocabulary(e)
    \/ UploadVocabulary(e)
    \/ LoadVocabulary(e)
    \/ EncodeAndTruncate(e)
    \/ UploadRepresentation(e)

\* ---------------------------------------------------------- specifications

\* One encoder, one call at a time, a database that never fails.
Next ==
    \/ \E id \in ArticleIds, text \in Texts : AddArticle(id, text)
    \/ \E flag \in BOOLEAN : StartAlone(1, flag)
    \/ Step(1)

Spec == Init /\ [][Next]_vars

\* One call at a time against a database whose calls may fail.
NextFail ==
    \/ \E id \in ArticleIds, text \in Texts : AddArticle(id, text)
    \/ \E flag \in BOOLEAN : StartAlone(1, flag)
    \/ Step(1)
    \/ StoreFailure(1)

SpecFail == Init /\ [][NextFail]_vars

\* ------------------------------------------------------------------ claims

Returned(e) == pc[e] = "returned"
Raised(e) == pc[e] = "raised"

BowIds(table) == {r.id : r \in table}
VocabularyWords(table) == {table[i].word : i \in DOMAIN table}
VocabularyIndices(table) == {table[i].feature_matrix_index : i \in DOMAIN table}

\* The rebuild of encoder e has just replaced the vocabulary table.
JustRebuilt(e) == pc[e] = "load_vocabulary" /\ ~use_existing_vocab[e]

\* The texts the rebuild of encoder e was fitted on.
Corpus(e) == ProcessedContents(preprocessed_content[e])

\* Every space-separated word of the corpus, whatever its length.
AllWords(contents) == UNION {Range(SplitWords(contents[i])) : i \in DOMAIN contents}

VectorsMatchVocabulary ==
    \A i \in DOMAIN tfidf_representation :
        Len(tfidf_representation[i].encoded) = Len(tfidf_vocabulary)

\* C1: whenever no encode_articles call is in progress (after any sequence of
\* completed rebuild and reuse runs, one at a time), every row of
\* tfidf_representation holds a vector as long as tfidf_vocabulary has rows.
C1_VectorLengthIsVocabularySize == NoRunInProgress => VectorsMatchVocabulary

\* A reuse run has returned after appending rows to rows of an earlier run.
C1_Witness ==
    /\ Returned(1) /\ use_existing_vocab[1]
    /\ before[1].representation # <<>>
    /\ Len(tfidf_representation) > Len(before[1].representation)
    /\ Len(tfidf_vocabulary) >= 2

IsBijectionOnto0ToV(table) ==
    /\ Cardinality(VocabularyWords(table)) = Len(table)
    /\ Cardinality(VocabularyIndices(table)) = Len(table)
    /\ VocabularyIndices(table) = 0..(Len(table) - 1)

C3_InterruptedRebuildConsistent ==
    \A e \in Encoders :
        (Raised(e) /\ ~use_existing_vocab[e] /\ NoRunInProgress) => VectorsMatchVocabulary

\* What a completed call of encoder e leaves in tfidf_representation.
CompleteResult(e) ==
    IF use_existing_vocab[e]
    THEN before[e].representation \o encoded_articles_dataframe[e]
    ELSE encoded_articles_dataframe[e]

\* The call of encoder e got as far as computing the vectors to store.
VectorsComputed(e) == encoded_articles_dataframe[e] # <<>>

\* C4 as stated: when a step fails after the vocabulary has been resolved, the
\* vector table is afterwards either what it was before the call or the
\* complete result of the call, never an empty or half-written table.
C4_FailedRunAllOrNothing ==
    \A e \in Encoders :
        (Raised(e) /\ VectorsComputed(e)) =>
            \/ tfidf_representation = before[e].representation
            \/ tfidf_representation = CompleteResult(e)

\* C5: from the start of a reuse-mode call on, the vocabulary table is what it
\* was when the call started: the call never writes it, whatever words the
\* documents it encodes hold.
C5_ReuseKeepsVocabulary ==
    \A e \in Encoders :
        (use_existing_vocab[e] /\ pc[e] # "idle") =>
            tfidf_vocabulary = before[e].vocabulary

\* A reuse run has returned after encoding a document with a word that the
\* vocabulary does not hold.
C5_Witness ==
    /\ Returned(1) /\ use_existing_vocab[1]
    /\ \E k \in DOMAIN preprocessed_content[1] :
          ~(Range(Tokenise(preprocessed_content[1][k].processed_content))
                \subseteq VocabularyWords(tfidf_vocabulary))

\* The rows of a table from row n + 1 on.
RowsAfter(table, n) == SubSeq(table, n + 1, Len(table))

\* C6: after a completed reuse-mode call the vector table is the table of
\* before the call, row for row, followed by exactly one new row for each
\* preprocessed article, of either publication, whose id was not in it.
C6_ReuseAppendsNewOnly ==
    \A e \in Encoders : (Returned(e) /\ use_existing_vocab[e]) =>
        LET old == before[e].representation
            new == RowsAfter(tfidf_representation, Len(old))
            missing == BowIds(before[e].bow) \ EncodedIds(old)
        IN /\ Len(tfidf_representation) >= Len(old)
           /\ SubSeq(tfidf_representation, 1, Len(old)) = old
           /\ EncodedIds(new) = missing
           /\ Len(new) = Cardinality(missing)

\* A reuse run has returned after appending new rows of both publications to
\* an existing row.
C6_Witness ==
    /\ Returned(1) /\ use_existing_vocab[1]
    /\ before[1].representation # <<>>
    /\ LET new == RowsAfter(tfidf_representation, Len(before[1].representation))
       IN {PublicationOf(id) : id \in EncodedIds(new)} = Range(Publications)

\* Every preprocessed article was already encoded when the call started.
NothingNew(e) ==
    /\ before[e].bow # {}
    /\ BowIds(before[e].bow) \subseteq EncodedIds(before[e].representation)

\* C7 as stated: a reuse-mode call made when every article is already in the
\* vector table ends without an error and leaves the table as it was.
C7_ReuseWithNothingNewReturns ==
    \A e \in Encoders :
        (use_existing_vocab[e] /\ NothingNew(e) /\ ~Running(e) /\ pc[e] # "idle") =>
            /\ Returned(e)
            /\ tfidf_representation = before[e].representation

\* C8: after a completed rebuild call the vector table holds exactly one row
\* for each preprocessed article of either publication, those encoded before
\* the call included, each with the vector of its text under the new
\* vocabulary, and nothing else.
C8_RebuildEncodesEveryArticle ==
    \A e \in Encoders : (Returned(e) /\ ~use_existing_vocab[e]) =>
        /\ EncodedIds(tfidf_representation) = BowIds(before[e].bow)
        /\ Len(tfidf_representation) = Cardinality(before[e].bow)
        /\ \A i \in DOMAIN tfidf_representation :
              \E r \in before[e].bow :
                 /\ r.id = tfidf_representation[i].id
                 /\ tfidf_representation[i].encoded =
                        EncodeText(VocabularyDict(tfidf_vocabulary), r.processed_content)

\* A rebuild has returned after replacing the rows of an earlier run by rows
\* for those articles and for a new one.
C8_Witness ==
    /\ Returned(1) /\ ~use_existing_vocab[1]
    /\ before[1].representation # <<>>
    /\ EncodedIds(before[1].representation) \subseteq EncodedIds(tfidf_representation)
    /\ Len(tfidf_representation) > Len(before[1].representation)
    /\ \A i \in DOMAIN before[1].representation :
          before[1].representation[i] \notin Range(tfidf_representation)

\* The corpus of the vocabulary test: 'some words', 'some more words'.
TestCorpus == <<SomeWords, SomeMoreWords>>

IndexOf(table, w) ==
    LET i == CHOOSE j \in DOMAIN table : table[j].word = w
    IN table[i].feature_matrix_index

\* C9: a rebuild numbers the words in their sorted order, so the corpus
\* 'some words', 'some more words' gives more 0, some 1, words 2, and a
\* rebuild from a corpus with the words of the vocabulary it replaces stores
\* that vocabulary again.
C9_IndicesInSortedOrder ==
    \A e \in Encoders : JustRebuilt(e) =>
        /\ \A i, j \in DOMAIN tfidf_vocabulary :
              LexLess(tfidf_vocabulary[i].word, tfidf_vocabulary[j].word)
                  <=> tfidf_vocabulary[i].feature_matrix_index
                         < tfidf_vocabulary[j].feature_matrix_index
        /\ Corpus(e) = TestCorpus =>
              /\ IndexOf(tfidf_vocabulary, more_) = 0
              /\ IndexOf(tfidf_vocabulary, some_) = 1
              /\ IndexOf(tfidf_vocabulary, words_) = 2
        /\ VocabularyWords(before[e].vocabulary) = VocabularyWords(tfidf_vocabulary)
              => tfidf_vocabulary = before[e].vocabulary

\* A rebuild from the test's corpus has replaced the vocabulary of an earlier
\* rebuild from the same words.
C9_Witness ==
    /\ JustRebuilt(1)
    /\ Corpus(1) = TestCorpus
    /\ VocabularyWords(before[1].vocabulary) = {some_, more_, words_}

\* C10 as stated: the vocabulary rebuilt from 'some words', 'some more words'
\* is some 0, more 1, words 2.
C10_SomeMoreWords ==
    \A e \in Encoders : (JustRebuilt(e) /\ Corpus(e) = TestCorpus) =>
        tfidf_vocabulary = << [word |-> some_, feature_matrix_index |-> 0],
                              [word |-> more_, feature_matrix_index |-> 1],
                              [word |-> words_, feature_matrix_index |-> 2] >>

\* C10 as amended: the vocabulary rebuilt from 'some words', 'some more words'
\* is exactly more 0, some 1, words 2.
C10_MoreSomeWords ==
    \A e \in Encoders : (JustRebuilt(e) /\ Corpus(e) = TestCorpus) =>
        tfidf_vocabulary = << [word |-> more_, feature_matrix_index |-> 0],
                              [word |-> some_, feature_matrix_index |-> 1],
                              [word |-> words_, feature_matrix_index |-> 2] >>

\* A rebuild from exactly the two documents of the test has stored its
\* vocabulary.
C10_Witness ==
    /\ JustRebuilt(1)
    /\ Corpus(1) = TestCorpus
    /\ Len(tfidf_vocabulary) = 3

\* ---------------------------------------------------------------------------
\* store_most_similar_articles: the similarity of every encoded article to
\* every other one, and the table of the pairs above a threshold.
\* ---------------------------------------------------------------------------

\* The most rows of tfidf_representation a similarity run reads.
MaxEncoded == 3

EncodedArticleIds == 1..MaxEncoded

\* The encoded vectors the table may hold. The first four have the width of
\* the vectors of the similarity test; the last is narrower, as a row left by
\* a run under another vocabulary is.
ZeroVector == <<0, 0, 0, 0>>

Vectors == {ZeroVector, <<1, 0, 0, 0>>, <<0, 0, 0, 1>>, <<4, 3, 0, 0>>, <<1, 0>>}

RECURSIVE AscendingIds(_)
AscendingIds(S) ==
    IF S = {} THEN <<>>
    ELSE LET lo == CHOOSE x \in S : \A y \in S : x <= y
         IN <<lo>> \o AscendingIds(S \ {lo})

\* The tables tfidf_representation may be: one row for each of some ids.
RepresentationTables ==
    UNION { { [k \in 1..Cardinality(S) |->
                 [id |-> AscendingIds(S)[k], encoded |-> f[AscendingIds(S)[k]]]]
              : f \in [S -> Vectors] }
            : S \in SUBSET EncodedArticleIds }

\* A number p / q, q > 0.
Fraction(p, q) == [num |-> p, den |-> q]

\* The thresholds a caller passes: -1, 0, 0.5, 0.8, 1 and 2.
Thresholds == {Fraction(0 - 1, 1), Fraction(0, 1), Fraction(1, 2), Fraction(4, 5),
               Fraction(1, 1), Fraction(2, 1)}

RECURSIVE GCD(_, _)
GCD(a, b) == IF b = 0 THEN a ELSE GCD(b, a % b)

\* p / q in lowest terms, so that equal numbers are equal records.
Reduce(p, q) == Fraction(p \div GCD(p, q), q \div GCD(p, q))

RECURSIVE DotUpTo(_, _, _)
DotUpTo(u, v, n) == IF n = 0 THEN 0 ELSE u[n] * v[n] + DotUpTo(u, v, n - 1)

Dot(u, v) == DotUpTo(u, v, Len(u))

\* A faulty variant of Cosine: the product of the rows as they are, none
\* divided by its norm.
CosineNotNormalised(u, v) == Fraction(Dot(u, v) * Dot(u, v), 1)

\* A faulty variant of Cosine: a row of norm zero counts as the same
\* direction as another row of norm zero.
CosineOfZeroRowsIsOne(u, v) ==
    IF Dot(u, u) = 0 /\ Dot(v, v) = 0 THEN Fraction(1, 1)
    ELSE IF Dot(u, u) = 0 \/ Dot(v, v) = 0 THEN Fraction(0, 1)
    ELSE Reduce(Dot(u, v) * Dot(u, v), Dot(u, u) * Dot(v, v))

\* The cosine of two rows as sklearn computes it: each row is divided by its
\* norm, a row of norm zero is left as it is, and the two are multiplied. The
\* components are never negative, so neither is the cosine, and the model keeps
\* it exact as its square: Dot(u, v)^2 / (Dot(u, u) * Dot(v, v)).
Cosine(u, v) ==
    IF Dot(u, u) = 0 \/ Dot(v, v) = 0 THEN Fraction(0, 1)
    ELSE Reduce(Dot(u, v) * Dot(u, v), Dot(u, u) * Dot(v, v))

One == Fraction(1, 1)

Zero == Fraction(0, 1)

\* pairwise.cosine_similarity refuses an array that is not two-dimensional:
\* no row at all, or rows of different lengths.
CosineSimilarityRaises(table) ==
    \/ table = <<>>
    \/ \E i, j \in DOMAIN table : Len(table[i].encoded) # Len(table[j].encoded)

\* The matrix of _calculate_similarities, by position in the table as read.
cosine_similarity(table) ==
    [i \in DOMAIN table |-> [j \in DOMAIN table |->
        Cosine(table[i].encoded, table[j].encoded)]]

\* A faulty variant of Exceeds: a score equal to the threshold passes.
ExceedsOrEquals(score, threshold) ==
    score.num * threshold.den * threshold.den >= threshold.num * threshold.num * score.den

\* score > threshold, for a threshold that is not negative; the score is held
\* as its square, so the threshold is squared as well.
Exceeds(score, threshold) ==
    score.num * threshold.den * threshold.den > threshold.num * threshold.num * score.den

\* np.argwhere: the positions of the matrix above the threshold, row by row.
indices_above_threshold(matrix, threshold) ==
    LET n == Len(matrix)
        positions == [k \in 1..(n * n) |-> <<((k - 1) \div n) + 1, ((k - 1) % n) + 1>>]
    IN SelectSeq(positions, LAMBDA p : Exceeds(matrix[p[1]][p[2]], threshold))

\* A faulty variant of RemoveSelfPairs: the pairs of an article with itself stay.
SelfPairsKept(pairs) == pairs

\* "Remove instances where the article is paired with itself".
RemoveSelfPairs(pairs) == SelectSeq(pairs, LAMBDA p : p[1] # p[2])

\* df_above_threshold as it is uploaded: a row for each position above the
\* threshold, its score, the self pairs removed, the positions replaced by
\* the ids of article_index_mapping.
AboveThreshold(table, threshold) ==
    LET matrix == cosine_similarity(table)
        pairs == RemoveSelfPairs(indices_above_threshold(matrix, threshold))
    IN [k \in DOMAIN pairs |->
          [id |-> table[pairs[k][1]].id,
           similar_article_id |-> table[pairs[k][2]].id,
           similarity_score |-> matrix[pairs[k][1]][pairs[k][2]]]]

\* A faulty variant of ValidThreshold: zero is refused.
ValidThresholdAboveZero(threshold) ==
    0 < threshold.num /\ threshold.num < threshold.den

\* "if not 0 <= similarity_threshold < 1: raise ValueError".
ValidThreshold(threshold) ==
    0 <= threshold.num /\ threshold.num < threshold.den

\* What no step of store_most_similar_articles touches.
outside_similarity == <<bow, tfidf_vocabulary, tfidf_representation, pc,
                        use_existing_vocab, locals, before, store_call_failed,
                        upload_vars, retry_vars, metadata_vars, preprocess_vars,
                        preprocess_all_vars>>

SimilarityRunning == sim_pc \notin {"idle", "returned", "raised"}

\* The call of store_most_similar_articles, up to the check of its argument.
StoreMostSimilarArticles(threshold) ==
    /\ ~SimilarityRunning
    /\ similarity_threshold' = threshold
    /\ sim_before' = tfidf_similar_articles
    /\ sim_store_calls' = 0
    /\ sim_store_call_failed' = FALSE
    /\ df_encoded_articles' = <<>>
    /\ df_similarity' = <<>>
    /\ df_above_threshold' = <<>>
    /\ sim_pc' = IF ValidThreshold(threshold) THEN "calculate_similarities" ELSE "raised"
    /\ UNCHANGED tfidf_similar_articles
    /\ UNCHANGED outside_similarity

\* _calculate_similarities reads tfidf_representation; the pairs above the
\* threshold are worked out in memory.
CalculateSimilarities ==
    /\ sim_pc = "calculate_similarities"
    /\ df_encoded_articles' = tfidf_representation
    /\ sim_store_calls' = sim_store_calls + 1
    /\ IF CosineSimilarityRaises(tfidf_representation)
       THEN /\ sim_pc' = "raised"
            /\ UNCHANGED <<df_similarity, df_above_threshold>>
       ELSE /\ df_similarity' = cosine_similarity(tfidf_representation)
            /\ df_above_threshold' =
                   AboveThreshold(tfidf_representation, similarity_threshold)
            /\ sim_pc' = "truncate"
    /\ UNCHANGED <<tfidf_similar_articles, similarity_threshold, sim_before,
                   sim_store_call_failed>>
    /\ UNCHANGED outside_similarity

\* A faulty variant of TruncatedSimilarArticles: the old rows stay.
SimilarArticlesKept == tfidf_similar_articles

\* TRUNCATE TABLE encoded_articles.tfidf_similar_articles
TruncatedSimilarArticles == <<>>

TruncateSimilarArticles ==
    /\ sim_pc = "truncate"
    /\ tfidf_similar_articles' = TruncatedSimilarArticles
    /\ sim_store_calls' = sim_store_calls + 1
    /\ sim_pc' = "upload"
    /\ UNCHANGED <<similarity_threshold, df_encoded_articles, df_similarity,
                   df_above_threshold, sim_before, sim_store_call_failed>>
    /\ UNCHANGED outside_similarity

\* upload_dataframe(df_above_threshold, if_exists='append')
UploadSimilarArticles ==
    /\ sim_pc = "upload"
    /\ tfidf_similar_articles' = tfidf_similar_articles \o df_above_threshold
    /\ sim_store_calls' = sim_store_calls + 1
    /\ sim_pc' = "returned"
    /\ UNCHANGED <<similarity_threshold, df_encoded_articles, df_similarity,
                   df_above_threshold, sim_before, sim_store_call_failed>>
    /\ UNCHANGED outside_similarity

\* A call to the database raises inside store_most_similar_articles: the read
\* of tfidf_representation, the TRUNCATE or the upload. The call writes
\* nothing and the exception leaves the method.
SimilarityStoreFailure ==
    /\ SimilarityRunning
    /\ sim_pc' = AfterFailedCall(sim_pc)
    /\ sim_store_calls' = sim_store_calls + 1
    /\ sim_store_call_failed' = TRUE
    /\ UNCHANGED <<tfidf_similar_articles, similarity_threshold, df_encoded_articles,
                   df_similarity, df_above_threshold, sim_before>>
    /\ UNCHANGED outside_similarity

SimilarityStep ==
    \/ CalculateSimilarities
    \/ TruncateSimilarArticles
    \/ UploadSimilarArticles

\* The table an earlier run read: every id, the vectors by turns, so that
\* every pair of its articles scores above zero.
EarlierRepresentation ==
    [k \in EncodedArticleIds |->
        [id |-> k, encoded |-> IF k % 2 = 0 THEN <<4, 3, 0, 0>> ELSE <<1, 0, 0, 0>>]]

\* The similarity runs start with the articles encoded, as any of the tables,
\* and with tfidf_similar_articles empty or as a run at threshold 0 over
\* the earlier table left it.
InitSimilarity ==
    /\ bow = {}
    /\ tfidf_vocabulary = <<>>
    /\ tfidf_representation \in RepresentationTables
    /\ pc = [e \in Encoders |-> "idle"]
    /\ use_existing_vocab = [e \in Encoders |-> TRUE]
    /\ preprocessed_content = [e \in Encoders |-> <<>>]
    /\ new_vocabulary = [e \in Encoders |-> <<>>]
    /\ vocabulary = [e \in Encoders |-> <<>>]
    /\ encoded_articles_dataframe = [e \in Encoders |-> <<>>]
    /\ before = [e \in Encoders |-> NoTables]
    /\ tfidf_similar_articles \in {<<>>, AboveThreshold(EarlierRepresentation, Zero)}
    /\ sim_pc = "idle"
    /\ similarity_threshold = Zero
    /\ df_encoded_articles = <<>>
    /\ df_similarity = <<>>
    /\ df_above_threshold = <<>>
    /\ sim_before = <<>>
    /\ sim_store_calls = 0
    /\ store_call_failed = [e \in Encoders |-> FALSE]
    /\ sim_store_call_failed = FALSE
    /\ target_table = <<>>
    /\ staging_table = <<>>
    /\ upload_pc = "idle"
    /\ dataframe = [columns |-> <<>>, rows |-> <<>>]
    /\ dataframe_reorganised_columns = [columns |-> <<>>, rows |-> <<>>]
    /\ upload_before = <<>>
    /\ InitRetry
    /\ InitMetadata
    /\ InitPreprocess
    /\ InitPreprocessAll

NextSimilarity ==
    \/ \E threshold \in Thresholds : StoreMostSimilarArticles(threshold)
    \/ SimilarityStep

SpecSimilarity == InitSimilarity /\ [][NextSimilarity]_vars

SimilarityReturned == sim_pc = "returned"

SimilarityRaised == sim_pc = "raised"

SimilarArticles == {tfidf_similar_articles[k] : k \in DOMAIN tfidf_similar_articles}

\* The row of the pair of the articles at positions i and j of the table the
\* run read.
Edge(i, j) ==
    [id |-> df_encoded_articles[i].id,
     similar_article_id |-> df_encoded_articles[j].id,
     similarity_score |-> Cosine(df_encoded_articles[i].encoded,
                                 df_encoded_articles[j].encoded)]

\* score > similarity_threshold, both taken as their squares.
AboveThisThreshold(score) ==
    score.num * similarity_threshold.den * similarity_threshold.den
        > similarity_threshold.num * similarity_threshold.num * score.den

\* C11: after store_most_similar_articles returns, tfidf_similar_articles holds
\* the row (id_i, id_j, score) once for exactly the ordered pairs of different
\* articles i, j whose cosine similarity is strictly greater than the
\* threshold: a score equal to the threshold is left out, one above it is in.
C11_EdgesAreThePairsAboveThreshold ==
    SimilarityReturned =>
        /\ \A i, j \in DOMAIN df_encoded_articles :
              (i # j /\ AboveThisThreshold(Edge(i, j).similarity_score))
                  <=> Edge(i, j) \in SimilarArticles
        /\ \A row \in SimilarArticles :
              \E i, j \in DOMAIN df_encoded_articles : i # j /\ row = Edge(i, j)
        /\ Cardinality(SimilarArticles) = Len(tfidf_similar_articles)

\* A run has returned in which one pair scores exactly the threshold and is
\* left out while another scores above it and is stored.
C11_Witness ==
    /\ SimilarityReturned
    /\ \E i, j \in DOMAIN df_encoded_articles :
          /\ i # j
          /\ Edge(i, j).similarity_score.num * similarity_threshold.den * similarity_threshold.den
                = similarity_threshold.num * similarity_threshold.num
                     * Edge(i, j).similarity_score.den
          /\ Edge(i, j) \notin SimilarArticles
    /\ \E i, j \in DOMAIN df_encoded_articles :
          /\ i # j
          /\ AboveThisThreshold(Edge(i, j).similarity_score)
          /\ Edge(i, j) \in SimilarArticles

\* C12: after a similarity run, every stored row (a, b, score) has its mirror
\* (b, a, score) stored with the same score, and no stored row pairs an
\* article with itself.
C12_EdgesSymmetricNoSelfEdge ==
    SimilarityReturned =>
        \A row \in SimilarArticles :
            /\ row.id # row.similar_article_id
            /\ [id |-> row.similar_article_id,
                similar_article_id |-> row.id,
                similarity_score |-> row.similarity_score] \in SimilarArticles

\* A run has returned with rows stored, over articles that score above the
\* threshold against themselves.
C12_Witness ==
    /\ SimilarityReturned
    /\ tfidf_similar_articles # <<>>
    /\ \E i \in DOMAIN df_similarity : AboveThisThreshold(df_similarity[i][i])

ReadIds == {df_encoded_articles[i].id : i \in DOMAIN df_encoded_articles}

\* C13: a completed run replaces the whole table: what is stored is exactly
\* the rows this run computed, so a row of an earlier run is there only if
\* this run computed it again.
C13_RunReplacesAllEdges ==
    SimilarityReturned =>
        /\ tfidf_similar_articles = df_above_threshold
        /\ \A k \in DOMAIN sim_before :
              sim_before[k] \in SimilarArticles =>
                  \E i, j \in DOMAIN df_encoded_articles :
                      /\ i # j
                      /\ sim_before[k] = Edge(i, j)
                      /\ AboveThisThreshold(Edge(i, j).similarity_score)

\* A run has returned that found rows of an earlier run in the table: one of
\* an article no longer encoded, which is gone, and one it computed again,
\* which is there.
C13_Witness ==
    /\ SimilarityReturned
    /\ \E k \in DOMAIN sim_before :
          /\ sim_before[k].similar_article_id \notin ReadIds
          /\ sim_before[k] \notin SimilarArticles
    /\ \E k \in DOMAIN sim_before : sim_before[k] \in SimilarArticles

SimilarityCalled == sim_pc # "idle"

\* 0 <= similarity_threshold < 1
ThresholdInRange ==
    0 <= similarity_threshold.num /\ similarity_threshold.num < similarity_threshold.den

C15_ThresholdZeroRejected ==
    (SimilarityCalled
        /\ ~(0 < similarity_threshold.num
               /\ similarity_threshold.num < similarity_threshold.den))
    => (SimilarityRaised /\ sim_store_calls = 0)

SimilaritiesCalculated == sim_pc \in {"truncate", "upload", "returned"}

Encoded(i) == df_encoded_articles[i].encoded

ShareNoComponent(u, v) == \A n \in DOMAIN u : u[n] = 0 \/ v[n] = 0

\* C16: in the matrix of _calculate_similarities two articles with the same
\* vector, not all zeros, score 1 and two articles whose vectors share no
\* non-zero component score 0, as [1,0,0,0] does against [1,0,0,0] and against
\* [0,0,0,1]; a run that returns has stored the first pair and not the second.
C16_IdenticalScoreOneDisjointScoreZero ==
    SimilaritiesCalculated =>
        \A i, j \in DOMAIN df_encoded_articles :
            /\ (Encoded(i) = Encoded(j) /\ Encoded(i) # ZeroVector) =>
                  /\ df_similarity[i][j] = One
                  /\ (SimilarityReturned /\ i # j) => Edge(i, j) \in SimilarArticles
            /\ ShareNoComponent(Encoded(i), Encoded(j)) =>
                  /\ df_similarity[i][j] = Zero
                  /\ SimilarityReturned => Edge(i, j) \notin SimilarArticles

\* A run has returned over [1,0,0,0], [1,0,0,0] and [0,0,0,1].
C16_Witness ==
    /\ SimilarityReturned
    /\ \E i, j, k \in DOMAIN df_encoded_articles :
          /\ i # j
          /\ Encoded(i) = <<1, 0, 0, 0>> /\ Encoded(j) = <<1, 0, 0, 0>>
          /\ Encoded(k) = <<0, 0, 0, 1>>

\* C17: an article whose vector is all zeros scores 0 against every article,
\* itself included, the matrix is computed all the same, and no stored row of
\* a run that returns names the article.
C17_ZeroVectorScoresZero ==
    /\ (sim_pc \in {"truncate", "upload", "returned", "raised"}
          /\ df_encoded_articles # <<>>
          /\ \A i \in DOMAIN df_encoded_articles : Len(Encoded(i)) = Len(ZeroVector))
       => SimilaritiesCalculated
    /\ SimilaritiesCalculated =>
          \A i \in DOMAIN df_encoded_articles : Encoded(i) = ZeroVector =>
              /\ \A j \in DOMAIN df_encoded_articles :
                    df_similarity[i][j] = Zero /\ df_similarity[j][i] = Zero
              /\ SimilarityReturned =>
                    \A row \in SimilarArticles :
                        df_encoded_articles[i].id
                            \notin {row.id, row.similar_article_id}

\* A run at threshold 0 has returned over two articles of all zeros and one
\* that is not.
C17_Witness ==
    /\ SimilarityReturned
    /\ similarity_threshold = Zero
    /\ \E i, j, k \in DOMAIN df_encoded_articles :
          /\ i # j
          /\ Encoded(i) = ZeroVector /\ Encoded(j) = ZeroVector
          /\ Encoded(k) # ZeroVector

\* C18: an encode step that finds stored vectors of a width other than the
\* size of the vocabulary it loaded raises instead of writing, so the vectors
\* of tfidf_representation never have two widths and a run that reuses the
\* vocabulary never returns over such rows.
C18_WidthMismatchSurfaced ==
    /\ \A i, j \in DOMAIN tfidf_representation :
          Len(tfidf_representation[i].encoded) = Len(tfidf_representation[j].encoded)
    /\ \A e \in Encoders :
          (use_existing_vocab[e] /\ pc[e] = "returned") =>
              \A i \in DOMAIN before[e].representation :
                  Len(before[e].representation[i].encoded)
                      = Cardinality(DOMAIN vocabulary[e])

\* The two methods against a database whose calls may fail, in the order of
\* the module's entry point: encode_articles runs, and after one that has
\* ended, returned or raised, store_most_similar_articles is called; the
\* behaviour ends with that call.
SimilarityNotCalled == sim_pc = "idle"

NextStoreFailure ==
    \/ \E id \in ArticleIds, text \in Texts : AddArticle(id, text) /\ SimilarityNotCalled
    \/ \E flag \in BOOLEAN : StartAlone(1, flag) /\ SimilarityNotCalled
    \/ Step(1)
    \/ StoreFailure(1)
    \/ \E threshold \in Thresholds :
          /\ StoreMostSimilarArticles(threshold)
          /\ SimilarityNotCalled
          /\ pc[1] \in {"returned", "raised"}
    \/ SimilarityStep
    \/ SimilarityStoreFailure

SpecStoreFailure == Init /\ [][NextStoreFailure]_vars

\* C19: when a call to the database fails inside encode_articles or
\* store_most_similar_articles, the method is left with the exception at once,
\* the call is not made again, and nothing is written to the method's tables
\* for as long as that failed run is the last one.
C19_StoreFailureReachesCaller ==
    [][ /\ store_call_failed'[1] => pc'[1] = "raised"
        /\ (store_call_failed[1] /\ store_call_failed'[1]) =>
              UNCHANGED <<tfidf_vocabulary, tfidf_representation>>
        /\ sim_store_call_failed' => sim_pc' = "raised"
        /\ (sim_store_call_failed /\ sim_store_call_failed') =>
              UNCHANGED <<tfidf_similar_articles, sim_store_calls>> ]_vars

\* A rebuild has failed after its TRUNCATE of the vocabulary, and a
\* similarity run has failed at its upload, after the read and the TRUNCATE,
\* with pairs computed and none stored.
C19_Witness ==
    /\ store_call_failed[1] /\ pc[1] = "raised"
    /\ tfidf_vocabulary = <<>> /\ before[1].vocabulary # <<>>
    /\ sim_store_call_failed /\ sim_pc = "raised"
    /\ sim_store_calls = 3
    /\ df_above_threshold # <<>> /\ tfidf_similar_articles = <<>>

\* ---------------------------------------------------------------------------
\* DatabaseConnection.upload_new_data_only_to_existing_table: the rows of a
\* dataframe whose id is not in the target table yet are inserted into it,
\* by way of a staging table.
\* ---------------------------------------------------------------------------

\* The most rows of a dataframe.
MaxUploadRows == 2

\* The target table is article_content_bow_preprocessed, as the
\* preprocessing calls the method: its columns in the order postgres keeps
\* them, as _get_column_names_existing_table returns them.
postgres_table_columns == <<"id", "processed_content">>

\* The column that tells whether a row is in the table already; the table
\* has it as its primary key.
id_column == "id"

UploadIds == {"article_1", "article_2"}

UploadContents == {"some words", "some more words"}

\* The columns a dataframe comes with: those of the table in its order, in
\* another order, one missing, one too many.
ColumnLayouts == { <<"id", "processed_content">>,
                   <<"processed_content", "id">>,
                   <<"id">>,
                   <<"id", "content", "processed_content">> }

ColumnValues(column) ==
    IF column = "id" THEN UploadIds
    ELSE IF column = "processed_content" THEN UploadContents
    ELSE {"Some words."}

RECURSIVE RowsUpTo(_, _)
RowsUpTo(columns, n) ==
    IF n = 0 THEN {<<>>}
    ELSE {Append(row, v) : row \in RowsUpTo(columns, n - 1), v \in ColumnValues(columns[n])}

\* The rows a dataframe of these columns may have.
RowsOfLayout(columns) == RowsUpTo(columns, Len(columns))

Dataframes ==
    UNION { { [columns |-> columns, rows |-> rows] :
                rows \in UNION { [1..n -> RowsOfLayout(columns)] : n \in 0..MaxUploadRows } }
            : columns \in ColumnLayouts }

ColumnSet(columns) == {columns[c] : c \in DOMAIN columns}

PositionOf(column, columns) == CHOOSE c \in DOMAIN columns : columns[c] = column

\* dataframe.reindex(columns=postgres_table_columns), for a dataframe with
\* exactly these columns: the same rows with their values in the new order.
Reindex(df, columns) ==
    [columns |-> columns,
     rows |-> [r \in DOMAIN df.rows |->
                 [c \in DOMAIN columns |-> df.rows[r][PositionOf(columns[c], df.columns)]]]]

\* The value of the id column in a row of a table with these columns.
IdOf(row, columns) == row[PositionOf(id_column, columns)]

TargetIds(table) == {IdOf(table[r], postgres_table_columns) : r \in DOMAIN table}

\* A faulty variant of StagingRowsNotInTarget: every row of the staging table.
StagingRowsAll(staging, table) == staging.rows

\* SELECT * FROM staging WHERE id NOT IN (SELECT DISTINCT id FROM target)
StagingRowsNotInTarget(staging, table) ==
    SelectSeq(staging.rows, LAMBDA row : IdOf(row, staging.columns) \notin TargetIds(table))

\* The INSERT breaks the primary key of the target table: two of the rows it
\* would add, or one of them and a row of the table, have the same id.
ViolatesPrimaryKey(table, rows) ==
    \/ \E r \in DOMAIN rows : IdOf(rows[r], postgres_table_columns) \in TargetIds(table)
    \/ \E r1, r2 \in DOMAIN rows :
          r1 # r2 /\ IdOf(rows[r1], postgres_table_columns)
                        = IdOf(rows[r2], postgres_table_columns)

UploadRunning == upload_pc \notin {"idle", "returned", "raised"}

\* What no step of upload_new_data_only_to_existing_table touches.
outside_upload == <<bow, tfidf_vocabulary, tfidf_representation, pc,
                    use_existing_vocab, locals, before, store_call_failed,
                    similarity_vars, retry_vars, metadata_vars, preprocess_vars,
                    preprocess_all_vars>>

\* upload_new_data_only_to_existing_table(dataframe, ..., id_column) is called.
UploadNewDataOnly(df) ==
    /\ ~UploadRunning
    /\ dataframe' = df
    /\ dataframe_reorganised_columns' = [columns |-> <<>>, rows |-> <<>>]
    /\ upload_before' = target_table
    /\ upload_pc' = "get_column_names"
    /\ UNCHANGED <<target_table, staging_table>>
    /\ UNCHANGED outside_upload

\* The columns of the target table are read and compared, as sets, with the
\* dataframe's; the dataframe is put into the table's column order.
GetColumnNames ==
    /\ upload_pc = "get_column_names"
    /\ IF ColumnSet(dataframe.columns) # ColumnSet(postgres_table_columns)
       THEN /\ upload_pc' = "raised"
            /\ UNCHANGED dataframe_reorganised_columns
       ELSE /\ dataframe_reorganised_columns' = Reindex(dataframe, postgres_table_columns)
            /\ upload_pc' = "upload_staging"
    /\ UNCHANGED <<target_table, staging_table, dataframe, upload_before>>
    /\ UNCHANGED outside_upload

\* upload_dataframe to <table_name>_staging; to_sql refuses a table that
\* exists (if_exists is left at 'fail').
UploadStaging ==
    /\ upload_pc = "upload_staging"
    /\ IF staging_table # <<>>
       THEN /\ upload_pc' = "raised"
            /\ UNCHANGED staging_table
       ELSE /\ staging_table' = <<dataframe_reorganised_columns>>
            /\ upload_pc' = "insert"
    /\ UNCHANGED <<target_table, dataframe, dataframe_reorganised_columns, upload_before>>
    /\ UNCHANGED outside_upload

\* INSERT INTO target SELECT * FROM staging WHERE id NOT IN (...): the values
\* go into the target's columns by position. A broken primary key is an
\* exception; the finally block runs on either way.
InsertNewRows ==
    /\ upload_pc = "insert"
    /\ LET rows == StagingRowsNotInTarget(staging_table[1], target_table)
       IN IF ViolatesPrimaryKey(target_table, rows)
          THEN /\ upload_pc' = "drop_staging_raising"
               /\ UNCHANGED target_table
          ELSE /\ target_table' = target_table \o rows
               /\ upload_pc' = "drop_staging"
    /\ UNCHANGED <<staging_table, dataframe, dataframe_reorganised_columns, upload_before>>
    /\ UNCHANGED outside_upload

\* A faulty variant of StagingAfterDrop: the DROP is not in a finally block,
\* and an INSERT that raises leaves the staging table behind.
StagingLeftByRaise(position) ==
    IF position = "drop_staging_raising" THEN staging_table ELSE <<>>

\* The staging table after the finally block, which runs the DROP whether the
\* INSERT raised or not.
StagingAfterDrop(position) == <<>>

\* finally: DROP TABLE <table_name>_staging
DropStaging ==
    /\ upload_pc \in {"drop_staging", "drop_staging_raising"}
    /\ staging_table' = StagingAfterDrop(upload_pc)
    /\ upload_pc' = IF upload_pc = "drop_staging" THEN "returned" ELSE "raised"
    /\ UNCHANGED <<target_table, dataframe, dataframe_reorganised_columns, upload_before>>
    /\ UNCHANGED outside_upload

NextUpload ==
    \/ \E df \in Dataframes : UploadNewDataOnly(df)
    \/ GetColumnNames
    \/ UploadStaging
    \/ InsertNewRows
    \/ DropStaging

SpecUpload == Init /\ [][NextUpload]_vars

UploadReturned == upload_pc = "returned"

UploadRaised == upload_pc = "raised"

\* The value a row of the dataframe has in a column, by the column's name.
ValueIn(r, column) == dataframe.rows[r][PositionOf(column, dataframe.columns)]

\* The row of the dataframe as a row of the target table.
AsTargetRow(r) ==
    [c \in DOMAIN postgres_table_columns |-> ValueIn(r, postgres_table_columns[c])]

IdsBefore == {IdOf(upload_before[k], postgres_table_columns) : k \in DOMAIN upload_before}

IsNewRow(r) == ValueIn(r, id_column) \notin IdsBefore

\* The rows the call has added to the target table.
Inserted == SubSeq(target_table, Len(upload_before) + 1, Len(target_table))

\* C20: a call that returns has inserted exactly the rows of the dataframe
\* whose id was not in the target table, each once, each value in its own
\* column; a row whose id was there is skipped and is no reason to raise; and
\* the rows that were in the table are there as they were.
C20_InsertsExactlyTheNewRows ==
    /\ SubSeq(target_table, 1, Len(upload_before)) = upload_before
    /\ UploadReturned =>
          /\ \A r \in DOMAIN dataframe.rows :
                IsNewRow(r) <=> \E k \in DOMAIN Inserted : Inserted[k] = AsTargetRow(r)
          /\ \A k \in DOMAIN Inserted :
                \E r \in DOMAIN dataframe.rows : IsNewRow(r) /\ Inserted[k] = AsTargetRow(r)
          /\ Len(Inserted) = Cardinality({r \in DOMAIN dataframe.rows : IsNewRow(r)})
    /\ UploadRaised =>
          /\ target_table = upload_before
          /\ \/ ColumnSet(dataframe.columns) # ColumnSet(postgres_table_columns)
             \/ \E r1, r2 \in DOMAIN dataframe.rows :
                   /\ r1 # r2
                   /\ IsNewRow(r1)
                   /\ ValueIn(r1, id_column) = ValueIn(r2, id_column)

\* A call has returned whose dataframe had its columns in another order than
\* the table, one row with the id of a row of the table and another string,
\* and one row with a new id.
C20_Witness ==
    /\ UploadReturned
    /\ dataframe.columns # postgres_table_columns
    /\ \E r \in DOMAIN dataframe.rows :
          /\ ~IsNewRow(r)
          /\ \A k \in DOMAIN upload_before : upload_before[k] # AsTargetRow(r)
    /\ \E r \in DOMAIN dataframe.rows : IsNewRow(r)

\* The articles of both publications as a rebuild loads them.
AllContent(table) ==
    LET rowsOf(publication) ==
            RowsById({[id |-> r.id, processed_content |-> r.processed_content] :
                         r \in {q \in table : q.publication = publication}})
    IN rowsOf(Publications[1]) \o rowsOf(Publications[2])

\* What a rebuild that no failure interrupts leaves in the two tables, for
\* these articles, whatever the tables held.
UninterruptedRebuild(table) ==
    LET content == AllContent(table)
        words == NewVocabulary(ProcessedContents(content))
    IN [vocabulary |-> words,
        representation |-> EncodedArticles(VocabularyDict(words), content)]

\* The tables as the call of encoder e found them disagree: vectors of
\* another length than the vocabulary, as only an interrupted run leaves them.
FoundInterrupted(e) ==
    \E i \in DOMAIN before[e].representation :
        Len(before[e].representation[i].encoded) # Len(before[e].vocabulary)

\* C27: a rebuild that completes leaves the vocabulary and the vectors of an
\* uninterrupted rebuild over its articles, also when it runs after a rebuild
\* that failed between two database calls; and a reuse run that finds every
\* article encoded changes neither table, however it ends.
C27_RerunRecovers ==
    \A e \in Encoders :
        /\ (Returned(e) /\ ~use_existing_vocab[e]) =>
              /\ tfidf_vocabulary = UninterruptedRebuild(before[e].bow).vocabulary
              /\ tfidf_representation = UninterruptedRebuild(before[e].bow).representation
        /\ (use_existing_vocab[e] /\ NothingNew(e) /\ pc[e] # "idle") =>
              /\ tfidf_vocabulary = before[e].vocabulary
              /\ tfidf_representation = before[e].representation

\* A rebuild has returned that found the tables as a failed rebuild left
\* them, with a vector of the old length next to the new vocabulary.
C27_Witness ==
    /\ Returned(1) /\ ~use_existing_vocab[1]
    /\ FoundInterrupted(1)
    /\ before[1].vocabulary # <<>>
    /\ Len(tfidf_representation) >= 2

\* The upload of the vectors where tfidf_representation has its id column as
\* primary key, as the table of the encoder's test has: an id that is stored
\* already makes the INSERT raise, and nothing of it is written. One call
\* after the other never uploads a stored id; two calls together can.
UploadRepresentationRefused(e) ==
    /\ pc[e] = "upload_representation"
    /\ EncodedIds(encoded_articles_dataframe[e]) \cap EncodedIds(tfidf_representation) # {}
    /\ pc' = [pc EXCEPT ![e] = "raised"]
    /\ UNCHANGED <<stores, use_existing_vocab, locals, before>>
    /\ UNCHANGED <<store_call_failed, outside_encoder>>

\* Two encoders against the same tables, a database that never fails. The
\* first is called any number of times, one call after the other; the second
\* is called once, at any moment, also in the middle of a call of the first,
\* and while its call is in progress the first may be called again. From
\* then on the steps of the two interleave in any order.
SecondNotCalled == pc[2] = "idle"

NextConcurrent ==
    \/ \E id \in ArticleIds, text \in Texts : AddArticle(id, text) /\ SecondNotCalled
    \/ \E flag \in BOOLEAN : StartAlone(1, flag) /\ SecondNotCalled
    \/ \E flag \in BOOLEAN : Start(2, flag) /\ SecondNotCalled
    \/ \E flag \in BOOLEAN : Start(1, flag) /\ Running(2)
    \/ \E e \in Encoders : Step(e)
    \/ \E e \in Encoders : UploadRepresentationRefused(e)

SpecConcurrent == Init /\ [][NextConcurrent]_vars

\* C28: nothing keeps a call of encode_articles from starting while another
\* is in progress: whenever an encoder's own call has ended it can start one,
\* in either mode.
C28_NoLockBetweenRuns ==
    \A e \in Encoders :
        ~Running(e) => (ENABLED Start(e, TRUE) /\ ENABLED Start(e, FALSE))

\* A rebuild and a reuse run have both ended, the reuse run by returning, no
\* id is stored twice, and tfidf_representation holds a vector of another
\* length than the vocabulary the rebuild stored.
C28_Witness ==
    /\ NoRunInProgress
    /\ pc[1] # "idle" /\ Returned(2)
    /\ ~use_existing_vocab[1] /\ use_existing_vocab[2]
    /\ Cardinality(EncodedIds(tfidf_representation)) = Len(tfidf_representation)
    /\ tfidf_vocabulary = new_vocabulary[1]
    /\ \E i \in DOMAIN tfidf_representation :
          Len(tfidf_representation[i].encoded) # Len(tfidf_vocabulary)

ColumnsRejected == ColumnSet(dataframe.columns) # ColumnSet(postgres_table_columns)

\* C30: a call that has ended has left no staging table, whether it returned
\* or its INSERT raised, so no call finds a staging table when it is about to
\* create its own; a call whose columns are rejected creates no staging table
\* and leaves the target table as it was.
C30_StagingTableDropped ==
    /\ ~UploadRunning => staging_table = <<>>
    /\ upload_pc = "upload_staging" => staging_table = <<>>
    /\ ColumnsRejected /\ upload_pc # "idle" =>
          /\ staging_table = <<>>
          /\ target_table = upload_before
          /\ upload_pc \in {"get_column_names", "raised"}

\* A call whose columns were accepted has raised from its INSERT, after an
\* earlier call had inserted rows, and the staging table is gone.
C30_Witness ==
    /\ UploadRaised
    /\ ~ColumnsRejected
    /\ dataframe_reorganised_columns.rows # <<>>
    /\ upload_before # <<>>
    /\ staging_table = <<>>

\* ------------------------------------------------------ the retry decorators

MaxAttempts == 5

Decorators == {"commons", "get_data"}

\* How a call of the wrapped function ends: it returns, it raises an exception
\* of exceptions_to_check (requests.RequestException for get_data's retry), or
\* it raises another exception.
AttemptOutcomes == {"result", "checked", "unchecked"}

\* A faulty variant of MaxAttemptsReached: the last attempt is never made.
OneAttemptLeft(attempt, total) == attempt + 1 >= total

\* commons.retry: if attempt_number == total_attempts
MaxAttemptsReached(attempt, total) == attempt = total

\* get_data/the_guardian.retry: if attempt_number == 3
ThirdAttemptReached(attempt, total) == attempt = 3

StopsRetrying(d, attempt, total) ==
    IF d = "commons" THEN MaxAttemptsReached(attempt, total)
                     ELSE ThirdAttemptReached(attempt, total)

RetryRunning == retry_pc = "loop"

outside_retry == <<encoder_vars, similarity_vars, upload_vars, metadata_vars,
                   preprocess_vars, preprocess_all_vars>>

\* The decorated function is called: attempt_number = 1. total_attempts is at
\* least 1, so the loop is entered. Only commons.retry has seconds_to_wait.
FuncWithRetries(d, total, wait) ==
    /\ ~RetryRunning
    /\ d = "get_data" => wait = 0
    /\ decorator' = d
    /\ total_attempts' = total
    /\ seconds_to_wait' = wait
    /\ attempt_number' = 1
    /\ retry_pc' = "loop"
    /\ attempts_made' = <<>>
    /\ from_attempt' = 0
    /\ seconds_slept' = 0
    /\ UNCHANGED outside_retry

\* One pass of the while loop: the wrapped function is called. Its result is
\* returned; an exception that is not checked leaves the wrapper; a checked
\* exception is raised again when the decorator stops retrying, and otherwise
\* attempt_number goes up after the wait, and the wrapper returns None when
\* the loop condition fails then.
Attempt(outcome) ==
    /\ RetryRunning
    /\ attempts_made' = Append(attempts_made, outcome)
    /\ IF outcome = "result"
       THEN /\ retry_pc' = "returned"
            /\ from_attempt' = attempt_number
            /\ UNCHANGED <<attempt_number, seconds_slept>>
       ELSE IF outcome = "unchecked" \/ StopsRetrying(decorator, attempt_number, total_attempts)
       THEN /\ retry_pc' = "raised"
            /\ from_attempt' = attempt_number
            /\ UNCHANGED <<attempt_number, seconds_slept>>
       ELSE /\ seconds_slept' = seconds_slept + seconds_to_wait
            /\ attempt_number' = attempt_number + 1
            /\ retry_pc' = IF attempt_number + 1 <= total_attempts THEN "loop" ELSE "returned"
            /\ UNCHANGED from_attempt
    /\ UNCHANGED <<decorator, total_attempts, seconds_to_wait>>
    /\ UNCHANGED outside_retry

NextRetry ==
    \/ \E d \in Decorators, total \in 1..MaxAttempts, wait \in {0, 1} :
          FuncWithRetries(d, total, wait)
    \/ \E outcome \in AttemptOutcomes : Attempt(outcome)

SpecRetry == Init /\ [][NextRetry]_vars

RetryEnded == retry_pc \in {"returned", "raised"}

AttemptsMade == Len(attempts_made)

\* Every attempt but the last one raised a checked exception.
RetriedOnCheckedOnly ==
    \A k \in 1..(AttemptsMade - 1) : attempts_made[k] = "checked"

LastAttempt == attempts_made[AttemptsMade]

\* C25: under commons.retry the function is called again only after a checked
\* exception and at most total_attempts times; a call that ends has returned
\* the result of its last attempt, or raised the unchecked exception of its
\* last attempt, or raised the checked exception of attempt total_attempts.
C25_RetriesUntilSuccessOrLimit ==
    decorator = "commons" /\ retry_pc # "idle" =>
        /\ RetriedOnCheckedOnly
        /\ AttemptsMade <= total_attempts
        /\ RetryRunning => /\ AttemptsMade = attempt_number - 1
                           /\ AttemptsMade < total_attempts
                           /\ \A k \in 1..AttemptsMade : attempts_made[k] = "checked"
        /\ RetryEnded =>
              /\ AttemptsMade >= 1
              /\ from_attempt = AttemptsMade
              /\ retry_pc = "returned" <=> LastAttempt = "result"
              /\ LastAttempt = "checked" => AttemptsMade = total_attempts

\* The wrapped function failed with a checked exception until the last of
\* several attempts, whose exception the wrapper raised.
C25_Witness ==
    /\ decorator = "commons"
    /\ retry_pc = "raised"
    /\ total_attempts >= 3
    /\ AttemptsMade = total_attempts
    /\ LastAttempt = "checked"
    /\ from_attempt = total_attempts

\* C26: under get_data's retry the function is attempted at most
\* total_attempts times and not again after a success, and a call whose
\* total_attempts attempts all raised RequestException raises it.
C26_RaisesAfterTotalAttempts ==
    decorator = "get_data" /\ RetryEnded =>
        /\ AttemptsMade <= total_attempts
        /\ RetriedOnCheckedOnly
        /\ (AttemptsMade = total_attempts /\ LastAttempt = "checked") =>
              retry_pc = "raised"

\* --------------------------------- the Guardian's opinion articles' metadata

\* The Opinion section has one article for each publication time 1..MaxPublished.
MaxPublished == 4

Published == 1..MaxPublished

\* The articles of one API page: the model's stand-in for the code's 200.
page_size == 2

\* @commons.retry(total_attempts=5, exceptions_to_check=HTTPError)
metadata_total_attempts == 5

\* How a call of the API ends: a response, an HTTPError (raise_for_status),
\* or another RequestException (no connection).
ApiOutcomes == {"response", "HTTPError", "ConnectionError"}

Max(S) == CHOOSE x \in S : \A y \in S : y <= x

\* _get_latest_opinion_articles_datetime_reached('metadata'):
\* MAX(web_publication_timestamp) of article_metadata, None for an empty table.
LatestDatetimeReached == IF article_metadata = {} THEN 0 ELSE Max(article_metadata)

\* The articles the API lists for from-date: those published on or after it,
\* all of them for None.
ArticlesFromDate(from_date) == {a \in Published : a >= from_date}

\* response.pages of the listing.
PagesFromDate(from_date) ==
    (Cardinality(ArticlesFromDate(from_date)) + page_size - 1) \div page_size

\* response.results of page 'page', order-by oldest.
ResultsOfPage(from_date, page) ==
    LET first == IF from_date = 0 THEN 1 ELSE from_date
    IN {a \in ArticlesFromDate(from_date) :
           /\ a >= first + (page - 1) * page_size
           /\ a < first + page * page_size}

\* The articles in the pages the attempt has pulled.
PulledArticles(per_api_call) == UNION {per_api_call[k] : k \in DOMAIN per_api_call}

\* _write_metadata_to_postgres: the pages are put together, duplicates are
\* dropped, and upload_new_data_only_to_existing_table adds the new articles.
WriteMetadataToPostgres(per_api_call) == article_metadata \cup PulledArticles(per_api_call)

MetadataRunning == metadata_pc \in {"first_call", "pages"}

outside_metadata == <<encoder_vars, similarity_vars, upload_vars, retry_vars,
                      preprocess_vars, preprocess_all_vars>>

\* The decorated record_opinion_articles_metadata is called: the wrapper's
\* attempt_number = 1.
RecordOpinionArticlesMetadata(start) ==
    /\ ~MetadataRunning
    /\ publication_start_timestamp' = start
    /\ metadata_attempt_number' = 1
    /\ metadata_pc' = "first_call"
    /\ most_recent_datetime' = 0
    /\ total_pages' = 0
    /\ page_index' = 1
    /\ opinion_articles_metadata_per_api_call' = <<>>
    /\ UNCHANGED article_metadata
    /\ UNCHANGED outside_metadata

\* What the retry wrapper does with an exception of the method: an HTTPError
\* is raised again on the last attempt and otherwise the method is called
\* again with the same arguments; another exception leaves the wrapper.
AfterException(outcome) ==
    IF outcome = "HTTPError"
       /\ ~MaxAttemptsReached(metadata_attempt_number, metadata_total_attempts)
    THEN /\ metadata_attempt_number' = metadata_attempt_number + 1
         /\ metadata_pc' = "first_call"
    ELSE /\ metadata_pc' = "raised"
         /\ UNCHANGED metadata_attempt_number

\* An attempt begins: the from-date is the argument if one was passed and
\* else the latest publication time saved; the first API call gives the
\* number of pages. An exception of this call is outside the try block. With
\* no page to pull the method writes nothing and returns.
FirstCall(outcome) ==
    /\ metadata_pc = "first_call"
    /\ LET from_date == IF publication_start_timestamp # 0
                        THEN publication_start_timestamp
                        ELSE LatestDatetimeReached
       IN /\ most_recent_datetime' = from_date
          /\ opinion_articles_metadata_per_api_call' = <<>>
          /\ page_index' = 1
          /\ IF outcome = "response"
             THEN /\ total_pages' = PagesFromDate(from_date)
                  /\ metadata_pc' = IF PagesFromDate(from_date) = 0
                                    THEN "returned" ELSE "pages"
                  /\ UNCHANGED metadata_attempt_number
             ELSE /\ AfterException(outcome)
                  /\ UNCHANGED total_pages
    /\ UNCHANGED <<article_metadata, publication_start_timestamp>>
    /\ UNCHANGED outside_metadata

\* One pass of the loop over the pages. A response is appended, and after the
\* last page everything pulled is written. A RequestException has the pages
\* pulled so far written and is raised again, to the retry wrapper.
PullPage(outcome) ==
    /\ metadata_pc = "pages"
    /\ IF outcome = "response"
       THEN LET pulled == Append(opinion_articles_metadata_per_api_call,
                                 ResultsOfPage(most_recent_datetime, page_index))
            IN /\ opinion_articles_metadata_per_api_call' = pulled
               /\ page_index' = page_index + 1
               /\ UNCHANGED metadata_attempt_number
               /\ IF page_index = total_pages
                  THEN /\ article_metadata' = WriteMetadataToPostgres(pulled)
                       /\ metadata_pc' = "returned"
                  ELSE UNCHANGED <<article_metadata, metadata_pc>>
       ELSE /\ article_metadata' =
                   WriteMetadataToPostgres(opinion_articles_metadata_per_api_call)
            /\ AfterException(outcome)
            /\ UNCHANGED <<opinion_articles_metadata_per_api_call, page_index>>
    /\ UNCHANGED <<publication_start_timestamp, most_recent_datetime, total_pages>>
    /\ UNCHANGED outside_metadata

NextMetadata ==
    \/ \E start \in 0..MaxPublished : RecordOpinionArticlesMetadata(start)
    \/ \E outcome \in ApiOutcomes : FirstCall(outcome)
    \/ \E outcome \in ApiOutcomes : PullPage(outcome)

SpecMetadata == Init /\ [][NextMetadata]_vars

\* C29: the pages an attempt pulled before its error are saved when the error
\* leaves the method, no more than 5 attempts are made, and an attempt the
\* wrapper runs again asks the API for the articles from the latest
\* publication time saved, whether or not the caller passed
\* publication_start_timestamp.
C29_RetryPicksUpFromLatestSaved ==
    /\ metadata_attempt_number <= metadata_total_attempts
    /\ metadata_pc \in {"first_call", "raised"} =>
          PulledArticles(opinion_articles_metadata_per_api_call) \subseteq article_metadata
    /\ (metadata_pc = "pages" /\ metadata_attempt_number > 1 /\ article_metadata # {}) =>
          most_recent_datetime = LatestDatetimeReached

\* The same without the part about a passed publication_start_timestamp.
MetadataSavedAndRetriedFromLatest ==
    /\ metadata_attempt_number <= metadata_total_attempts
    /\ metadata_pc \in {"first_call", "raised"} =>
          PulledArticles(opinion_articles_metadata_per_api_call) \subseteq article_metadata
    /\ (/\ metadata_pc = "pages" /\ metadata_attempt_number > 1
        /\ article_metadata # {} /\ publication_start_timestamp = 0) =>
          most_recent_datetime = LatestDatetimeReached

\* ------------------------------------------------ the bag-of-words preprocessor

MaxTexts == 3
MaxTokens == 2
MaxBatchSize == 2
MaxProcessors == 2

\* Characters beyond the lower-case letters 1..26: the upper-case letter of
\* code c is c + 26, and one punctuation mark.
UpperCaseOffset == 26
FullStop == 53

\* str.lower() on one character and on a string.
LowerChar(c) ==
    IF c > UpperCaseOffset /\ c <= 2 * UpperCaseOffset THEN c - UpperCaseOffset ELSE c

Lower(string) == [k \in DOMAIN string |-> LowerChar(string[k])]

\* The tokens of a spaCy document as the code reads them: lemma_ and the three
\* flags. 'cat', 'Dog', the stop word 'The', '.', and a run of blanks.
Tokens ==
    { [lemma_ |-> <<3, 1, 20>>,   is_punct |-> FALSE, is_space |-> FALSE, is_stop |-> FALSE],
      [lemma_ |-> <<30, 15, 7>>,  is_punct |-> FALSE, is_space |-> FALSE, is_stop |-> FALSE],
      [lemma_ |-> <<46, 8, 5>>,   is_punct |-> FALSE, is_space |-> FALSE, is_stop |-> TRUE],
      [lemma_ |-> <<FullStop>>,   is_punct |-> TRUE,  is_space |-> FALSE, is_stop |-> FALSE],
      [lemma_ |-> <<Space, Space>>, is_punct |-> FALSE, is_space |-> TRUE, is_stop |-> FALSE] }

TokenSequences == UNION {[1..n -> Tokens] : n \in 0..MaxTokens}

\* A text is what the tokenizer makes of it: a string becomes a document, a
\* sequence of tokens (none for the empty string); a value that is no string,
\* such as the None of a NULL content, makes the tokenizer raise.
InputTexts ==
    {[is_string |-> TRUE, document |-> d] : d \in TokenSequences}
        \cup {[is_string |-> FALSE, document |-> <<>>]}

TextLists == UNION {[1..n -> InputTexts] : n \in 0..MaxTexts}

\* nlp.pipe(texts, batch_size, n_process): the texts are cut into batches of
\* batch_size, batch k goes to process ((k - 1) mod n_process) + 1, and the
\* documents are yielded by taking the processes' batches in the same turn.
NumberOfBatches(list, size) == (Len(list) + size - 1) \div size

Batch(list, size, k) ==
    SubSeq(list, (k - 1) * size + 1, Min(k * size, Len(list)))

BatchesOfProcess(list, size, processes, p) ==
    LET mine == {k \in 1..NumberOfBatches(list, size) : ((k - 1) % processes) + 1 = p}
    IN [j \in 1..Cardinality(mine) |-> Batch(list, size, (j - 1) * processes + p)]

Pipe(list, size, processes) ==
    LET RECURSIVE Yielded(_)
        Yielded(k) ==
            IF k > NumberOfBatches(list, size) THEN <<>>
            ELSE BatchesOfProcess(list, size, processes,
                                  ((k - 1) % processes) + 1)[((k - 1) \div processes) + 1]
                     \o Yielded(k + 1)
    IN Yielded(1)

\* A faulty variant of TokenShouldBeDeleted: stop words are kept.
TokenShouldBeDeletedButStopWords(token) == token.is_punct \/ token.is_space

\* _token_should_be_deleted
TokenShouldBeDeleted(token) == token.is_punct \/ token.is_space \/ token.is_stop

\* ' '.join(strings)
RECURSIVE JoinWithSpace(_)
JoinWithSpace(strings) ==
    IF strings = <<>> THEN <<>>
    ELSE IF Len(strings) = 1 THEN strings[1]
    ELSE strings[1] \o <<Space>> \o JoinWithSpace(Tail(strings))

\* The body of the loop: the lower-cased lemmas of the tokens not deleted,
\* joined.
ProcessedDoc(document) ==
    LET kept == SelectSeq(document, LAMBDA token : ~TokenShouldBeDeleted(token))
    IN JoinWithSpace([k \in DOMAIN kept |-> Lower(kept[k].lemma_)])

\* A faulty variant of AppendTransformed: deque.appendleft.
AppendLeftTransformed(transformed, processed_doc) == <<processed_doc>> \o transformed

\* transformed_texts.append(processed_doc)
AppendTransformed(transformed, processed_doc) == Append(transformed, processed_doc)

PreprocessRunning == preprocess_pc = "pipe"

outside_preprocess == <<encoder_vars, similarity_vars, upload_vars, retry_vars,
                        metadata_vars, preprocess_all_vars>>

\* BagOfWordsPreprocessor(batch_size, number_of_processors)._preprocess_texts(texts),
\* one call on a preprocessor.
PreprocessTexts(list, size, processes) ==
    /\ preprocess_pc = "idle"
    /\ texts' = list
    /\ batch_size' = size
    /\ number_of_processors' = processes
    /\ documents_yielded' = 0
    /\ transformed_texts' = <<>>
    /\ preprocess_pc' = "pipe"
    /\ UNCHANGED outside_preprocess

\* One turn of the for loop: nlp.pipe yields the next document, or raises on
\* a text that is no string, which nothing in _preprocess_texts catches; after
\* the last document the list is returned.
NextDocument ==
    /\ PreprocessRunning
    /\ LET yielded == Pipe(texts, batch_size, number_of_processors)
       IN IF documents_yielded = Len(yielded)
          THEN /\ preprocess_pc' = "returned"
               /\ UNCHANGED <<documents_yielded, transformed_texts>>
          ELSE IF ~yielded[documents_yielded + 1].is_string
          THEN /\ preprocess_pc' = "raised"
               /\ UNCHANGED <<documents_yielded, transformed_texts>>
          ELSE /\ transformed_texts' =
                      AppendTransformed(transformed_texts,
                                        ProcessedDoc(yielded[documents_yielded + 1].document))
               /\ documents_yielded' = documents_yielded + 1
               /\ UNCHANGED preprocess_pc
    /\ UNCHANGED <<texts, batch_size, number_of_processors>>
    /\ UNCHANGED outside_preprocess

NextPreprocess ==
    \/ /\ preprocess_pc = "idle"
       /\ \E list \in TextLists, size \in 1..MaxBatchSize, processes \in 1..MaxProcessors :
             PreprocessTexts(list, size, processes)
    \/ NextDocument

SpecPreprocess == Init /\ [][NextPreprocess]_vars

PreprocessReturned == preprocess_pc = "returned"

\* The lemmas a document must give: those of the tokens that are no stop
\* word, no punctuation and no whitespace, lower-cased, in the tokens' order.
ExpectedLemmas(document) ==
    LET kept == SelectSeq(document,
                          LAMBDA token : ~token.is_stop /\ ~token.is_punct /\ ~token.is_space)
    IN [k \in DOMAIN kept |-> Lower(kept[k].lemma_)]

\* The output that holds these lemmas with one space between two of them.
SingleSpaced(lemmas, output) ==
    /\ SplitWords(output) = lemmas
    /\ Len(output) = IF lemmas = <<>> THEN 0
                     ELSE Len(lemmas) - 1
                          + Cardinality({<<k, c>> \in (DOMAIN lemmas) \X (1..3) :
                                           c <= Len(lemmas[k])})

\* C21: the list returned has one output for each input text, the output at a
\* position is that of the text at the same position, an empty text gives an
\* empty output, and batch_size and number_of_processors do not enter into it.
C21_OneOutputPerTextInOrder ==
    PreprocessReturned =>
        /\ Len(transformed_texts) = Len(texts)
        /\ \A i \in DOMAIN texts :
              /\ transformed_texts[i] = JoinWithSpace(ExpectedLemmas(texts[i].document))
              /\ texts[i].document = <<>> => transformed_texts[i] = <<>>

\* Three texts with three different outputs, one of them empty, were cut into
\* two batches for two processes.
C21_Witness ==
    /\ PreprocessReturned
    /\ Len(texts) = 3 /\ batch_size = 2 /\ number_of_processors = 2
    /\ texts[2].document = <<>>
    /\ Cardinality(Range(transformed_texts)) = 3

\* C22: a text that cannot be tokenized does not end the call with an
\* exception: the list is returned with the empty string at its position and
\* every other text's output at its own.
C22_UntokenizableGivesEmptyString ==
    (preprocess_pc \in {"returned", "raised"} /\ \E i \in DOMAIN texts : ~texts[i].is_string) =>
        /\ PreprocessReturned
        /\ Len(transformed_texts) = Len(texts)
        /\ \A i \in DOMAIN texts :
              transformed_texts[i] = IF texts[i].is_string
                                     THEN ProcessedDoc(texts[i].document)
                                     ELSE <<>>

\* C23: every output is the lower-cased lemmas of the tokens that are neither
\* stop word nor punctuation nor whitespace, in the tokens' order, with one
\* space between two of them; and a token is left out exactly if
\* _token_should_be_deleted is true for it.
C23_LemmasOfKeptTokens ==
    /\ \A i \in DOMAIN transformed_texts :
          SingleSpaced(ExpectedLemmas(Pipe(texts, batch_size, number_of_processors)[i].document),
                       transformed_texts[i])
    /\ \A t \in Tokens :
          TokenShouldBeDeleted(t) <=> (t.is_stop \/ t.is_punct \/ t.is_space)

\* A text of two tokens that are kept, one with an upper-case lemma, after a
\* text whose tokens, a stop word and a full stop, are both deleted.
C23_Witness ==
    /\ Len(transformed_texts) >= 2
    /\ transformed_texts[1] = <<>>
    /\ Len(texts[1].document) = 2
    /\ \E k \in 1..2 : texts[1].document[k].is_stop
    /\ \E k \in 1..2 : texts[1].document[k].is_punct
    /\ transformed_texts[2] = <<4, 15, 7, Space, 3, 1, 20>>

\* ------------------------------------------- preprocess_all_article_content

\* The contents a downloaded article may have: 'The cat.', 'Dog cat', the
\* empty string, and a NULL.
RawContents ==
    { [is_string |-> TRUE,
       document |-> << [lemma_ |-> <<46, 8, 5>>, is_punct |-> FALSE, is_space |-> FALSE, is_stop |-> TRUE],
                       [lemma_ |-> <<3, 1, 20>>, is_punct |-> FALSE, is_space |-> FALSE, is_stop |-> FALSE] >>],
      [is_string |-> TRUE,
       document |-> << [lemma_ |-> <<30, 15, 7>>, is_punct |-> FALSE, is_space |-> FALSE, is_stop |-> FALSE],
                       [lemma_ |-> <<3, 1, 20>>, is_punct |-> FALSE, is_space |-> FALSE, is_stop |-> FALSE] >>],
      [is_string |-> TRUE, document |-> <<>>],
      [is_string |-> FALSE, document |-> <<>>] }

\* A faulty variant of SchemasToPreprocess: the Guardian is left out.
SchemasDailyMailOnly == <<"daily_mail">>

\* for schema in ['daily_mail', 'the_guardian']
SchemasToPreprocess == <<"daily_mail", "the_guardian">>

PreprocessedIds(table, schema) == {r.id : r \in {q \in table : q.schema = schema}}

\* SELECT id, content FROM article_content
\* WHERE id NOT IN (SELECT ID FROM article_content_bow_preprocessed)
ArticlesNotPreprocessed(schema) ==
    {r \in article_content :
        /\ r.schema = schema
        /\ r.id \notin PreprocessedIds(article_content_bow_preprocessed, schema)}

\* _preprocess_texts raises on the contents.
PreprocessTextsRaises(articles) == \E r \in articles : ~r.content.is_string

\* The dataframe with processed_content in place of content.
ProcessedArticles(articles) ==
    {[schema |-> r.schema, id |-> r.id,
      processed_content |-> ProcessedDoc(r.content.document)] : r \in articles}

\* upload_new_data_only_to_existing_table(..., id_column='id'): the rows whose
\* id the table has not are added.
UploadedNewDataOnly(table, rows) ==
    table \cup {r \in rows : r.id \notin PreprocessedIds(table, r.schema)}

PreprocessAllRunning == preprocess_all_pc = "schema"

outside_preprocess_all == <<encoder_vars, similarity_vars, upload_vars, retry_vars,
                            metadata_vars, preprocess_vars>>

\* An article's content is saved by a downloader; id is the primary key of
\* article_content. The jobs run one after the other.
ArticleDownloaded(id, content) ==
    /\ ~PreprocessAllRunning
    /\ id \notin {r.id : r \in article_content}
    /\ article_content' = article_content
                             \cup {[schema |-> PublicationOf(id), id |-> id, content |-> content]}
    /\ UNCHANGED <<article_content_bow_preprocessed, schema_index, preprocess_all_pc,
                   preprocessed_before, content_before>>
    /\ UNCHANGED outside_preprocess_all

\* preprocess_all_article_content is called.
PreprocessAllArticleContent ==
    /\ ~PreprocessAllRunning
    /\ schema_index' = 1
    /\ preprocess_all_pc' = "schema"
    /\ preprocessed_before' = article_content_bow_preprocessed
    /\ content_before' = article_content
    /\ UNCHANGED <<article_content, article_content_bow_preprocessed>>
    /\ UNCHANGED outside_preprocess_all

\* One turn of the loop over the schemas: the articles not yet preprocessed
\* are read, their contents preprocessed and the rows uploaded; an exception
\* of _preprocess_texts leaves the method.
PreprocessSchema ==
    /\ PreprocessAllRunning
    /\ IF schema_index > Len(SchemasToPreprocess)
       THEN /\ preprocess_all_pc' = "returned"
            /\ UNCHANGED <<article_content_bow_preprocessed, schema_index>>
       ELSE LET articles == ArticlesNotPreprocessed(SchemasToPreprocess[schema_index])
            IN IF PreprocessTextsRaises(articles)
               THEN /\ preprocess_all_pc' = "raised"
                    /\ UNCHANGED <<article_content_bow_preprocessed, schema_index>>
               ELSE /\ article_content_bow_preprocessed' =
                           UploadedNewDataOnly(article_content_bow_preprocessed,
                                               ProcessedArticles(articles))
                    /\ schema_index' = schema_index + 1
                    /\ UNCHANGED preprocess_all_pc
    /\ UNCHANGED <<article_content, preprocessed_before, content_before>>
    /\ UNCHANGED outside_preprocess_all

NextPreprocessAll ==
    \/ \E id \in ArticleIds, content \in RawContents : ArticleDownloaded(id, content)
    \/ PreprocessAllArticleContent
    \/ PreprocessSchema

SpecPreprocessAll == Init /\ [][NextPreprocessAll]_vars

\* The call has returned and no article has been downloaded since it began.
PreprocessAllReturned ==
    /\ preprocess_all_pc = "returned"
    /\ article_content = content_before

RowsOfArticle(table, article) ==
    {r \in table : r.schema = article.schema /\ r.id = article.id}

WasPreprocessed(article) == RowsOfArticle(preprocessed_before, article) # {}

\* C24: the rows that were in the preprocessed tables stay as they are during
\* a call; and when it has returned every article has exactly one row, an
\* article that had none has the row with its normalized content, and a call
\* that found every article preprocessed, as a second call straight after
\* the first does, has added nothing.
C24_OnlyNewArticlesPreprocessed ==
    /\ preprocess_all_pc # "idle" => preprocessed_before \subseteq article_content_bow_preprocessed
    /\ PreprocessAllReturned =>
          /\ \A article \in article_content :
                /\ Cardinality(RowsOfArticle(article_content_bow_preprocessed, article)) = 1
                /\ ~WasPreprocessed(article) =>
                      RowsOfArticle(article_content_bow_preprocessed, article)
                          = ProcessedArticles({article})
          /\ Cardinality(article_content_bow_preprocessed) = Cardinality(article_content)
          /\ \A schema \in Range(Publications) : ArticlesNotPreprocessed(schema) = {}
          /\ (\A article \in article_content : WasPreprocessed(article)) =>
                article_content_bow_preprocessed = preprocessed_before

\* A call has returned that found an article of each source preprocessed and
\* a new article of the Daily Mail, which it added.
C24_Witness ==
    /\ PreprocessAllReturned
    /\ \E a1, a2, a3 \in article_content :
          /\ a1.schema = "the_guardian" /\ WasPreprocessed(a1)
          /\ a2.schema = "daily_mail" /\ WasPreprocessed(a2)
          /\ a3.schema = "daily_mail" /\ ~WasPreprocessed(a3)
          /\ RowsOfArticle(article_content_bow_preprocessed, a3) # {}

\* A call straight after a call that added rows has returned and changed
\* nothing.
SecondRunAddsNothing ==
    /\ PreprocessAllReturned
    /\ preprocessed_before # {}
    /\ article_content_bow_preprocessed = preprocessed_before

====
